---- MODULE Spec2Model ----
(***************************************************************************)
(* Model of the CherryPy instrumentation                                   *)
(* (opentelemetry/instrumentation/cherrypy/__init__.py).                   *)
(*                                                                         *)
(* One CherryPyInstrumentor (a singleton) installs _InstrumentationHook    *)
(* tools and replaces cherrypy.expose.  The host framework serves requests *)
(* on worker threads; for each request it runs the hook's five callbacks.  *)
(* The hook keeps its per-request values (span, token, activation, start,  *)
(* exception, the two attribute sets) as attributes of the tool instance.  *)
(***************************************************************************)
EXTENDS Integers, Sequences, FiniteSets, TLC

\* ------------------------------------------------------------------ bounds
MaxReq == 2            \* requests the host serves (worker threads)
MaxTools == 2          \* calls of _instrument (hook instances ever built)
RecursionLimit == 3    \* depth at which the interpreter raises RecursionError
MaxTick == 2           \* largest reading of the timer, in ticks

Reqs == 1..MaxReq

\* ------------------------------------------------------------ input values
Methods == {"GET", "POST"}
Paths == {"/hello", "/ping", "/does-not-exit"}
HandlerPaths == {"/hello", "/ping"}    \* paths the mounted handler serves
Outcomes == {"ok", "raise"}
ExcludedPaths == {"/ping"}

\* Keyword arguments of instrument(): the set of keys the caller passes, each
\* with a value of the caller's ("user"); either none or all of them.
KwargsSets ==
    {{}, {"tracer_provider", "meter_provider", "request_hook", "response_hook"}}

\* Readings of timeit.default_timer.  A reading is a number of seconds; the
\* model counts it in ticks of half a millisecond, so that elapsed times
\* fall on both sides of round().  The code does not rely on the order of
\* two readings, and neither does the model.
Ticks == 0..MaxTick
TicksPerSecond == 2000

None == 0              \* Python None in an integer-valued field
Unset == -1            \* an attribute of the tool that was never assigned
NoAttrs == [method |-> "unset", status_code |-> 0]
NoToken == [thread |-> None, depth |-> 0]
UnsetToken == [thread |-> Unset, depth |-> 0]
UnsetStart == [at |-> Unset, by |-> Unset]

VARIABLES
    instrumented,             \* BaseInstrumentor: instrument() ran, uninstrument() did not
    original_expose,          \* CherryPyInstrumentor.original_expose
    otel_tool,                \* CherryPyInstrumentor.otel_tool
    cherrypy_expose,          \* the module attribute cherrypy.expose
    cherrypy_tools,           \* the toolbox attribute cherrypy.tools.<_TOOL_NAME>
    hook,                     \* the attributes of each _InstrumentationHook
    lastExpose,               \* the latest use of cherrypy.expose and its result
    response_propagator,      \* a global response propagator is configured
    req,                      \* the host's requests
    ctx,                      \* each worker thread's ambient context stack
    spans,                    \* the span started on each request's thread
    active_requests_counter,  \* net value of http.server.active_requests
    log                       \* telemetry calls made by each request's callbacks

vars == <<instrumented, original_expose, otel_tool, cherrypy_expose,
          cherrypy_tools, hook, lastExpose,
          response_propagator, req, ctx, spans, active_requests_counter, log>>

installVars == <<instrumented, original_expose, otel_tool, cherrypy_expose,
                 cherrypy_tools>>
telemetryVars == <<ctx, spans, active_requests_counter, log>>

\* ----------------------------------------------------------------- helpers
Count(s, P(_)) == Cardinality({i \in DOMAIN s : P(s[i])})

Ev(op, span, val, method, status_code, exc) ==
    [op |-> op, span |-> span, val |-> val, method |-> method,
     status_code |-> status_code, exc |-> exc]

\* ------------------------------------------------- handler exposure values
\* A value passed to or returned by an expose function: a page handler, no
\* function at all (None), a decorator closure, or a raised RecursionError.
Fn(kind, exposed, alias, tool_on, k) ==
    [kind |-> kind, exposed |-> exposed, alias |-> alias, tool_on |-> tool_on,
     k |-> k]

NewHandler == Fn("handler", FALSE, "none", FALSE, 0)
NoFunc == Fn("None", FALSE, "none", FALSE, 0)
RecursionError == Fn("RecursionError", FALSE, "none", FALSE, 0)

\* The decorator returned by calling the tool: it switches the tool on in the
\* handler's configuration and returns the same handler.
tool_decorator(func) == [func EXCEPT !.tool_on = TRUE]

\* The framework's own expose_ closure: marks the handler exposed, and
\* registers it under the alias when one was given.
expose_(func, alias) ==
    [func EXCEPT !.exposed = TRUE,
                 !.alias = IF alias # "none" THEN alias ELSE @]

\* The framework's own cherrypy.expose(func, alias).
cherrypy_original_expose(func, alias) ==
    IF func.kind = "handler"
    THEN expose_(func, alias)
    ELSE Fn("expose_", FALSE, alias, FALSE, 0)

\* What _Instrumented_expose returns when func is None or not decoratable.
InstrumentedExposeNoFunc(k, expose_callable) ==
    Fn("_Instrumented_expose", FALSE, "none", FALSE, k)

\* A call of the expose function `callee` (0: the framework's own; k > 0: the
\* _Instrumented_expose closure built by the k-th _instrument).  The closure
\* reads self.original_expose when it runs, not when it was built.
RECURSIVE CallExpose(_, _, _, _)
CallExpose(callee, func, alias, depth) ==
    IF depth > RecursionLimit THEN RecursionError
    ELSE IF callee = 0 THEN cherrypy_original_expose(func, alias)
    ELSE IF func.kind # "handler"
    THEN LET expose_callable ==
                 CallExpose(original_expose, func, alias, depth + 1)
         IN  IF expose_callable.kind = "RecursionError"
             THEN RecursionError
             ELSE InstrumentedExposeNoFunc(callee, expose_callable)
    ELSE CallExpose(original_expose, tool_decorator(func), alias, depth + 1)

\* Applying what expose(alias=...) returned to a handler.
ApplyDecorator(d, func) ==
    IF d.kind = "expose_" THEN expose_(func, d.alias)
    ELSE IF d.kind = "_Instrumented_expose" THEN CallExpose(d.k, func, "none", 1)
    ELSE RecursionError

\* cherrypy.expose used on a new handler, in the direct form expose(handler)
\* or in the parameterized form expose(alias=A)(handler).
ExposeResult(form, alias) ==
    IF form = "direct"
    THEN CallExpose(cherrypy_expose, NewHandler, alias, 1)
    ELSE LET d == CallExpose(cherrypy_expose, NoFunc, alias, 1)
         IN  IF d.kind = "RecursionError" THEN RecursionError
             ELSE ApplyDecorator(d, NewHandler)

\* ------------------------------------------------------------ installation
\* kwargs.pop(key, None).
pop(kwargs, key) == IF key \in kwargs THEN "user" ELSE "None"

\* trace.get_tracer / metrics.get_meter: the tracer or meter of the given
\* provider, of the process-wide global provider when it is None.
get_tracer(tracer_provider) ==
    IF tracer_provider = "None" THEN "global" ELSE tracer_provider

get_meter(meter_provider) ==
    IF meter_provider = "None" THEN "global" ELSE meter_provider

\* _InstrumentationHook.__init__: the flag is set; the per-request attributes
\* are not assigned until a start callback runs.  otel_tracer and otel_meter
\* name the provider the tracer and the two instruments come from; passed
\* keeps the keys the caller gave.
NewHook(kwargs) ==
    [passed |-> kwargs,
     otel_tracer |-> get_tracer(pop(kwargs, "tracer_provider")),
     otel_meter |-> get_meter(pop(kwargs, "metr_provider")),
     request_hook |-> pop(kwargs, "request_hook"),
     response_hook |-> pop(kwargs, "response_hook"),
     enabled |-> TRUE, span |-> Unset, token |-> UnsetToken,
     activation |-> Unset, start |-> UnsetStart, exception |-> Unset,
     duration_attrs |-> NoAttrs, active_requests_count_attrs |-> NoAttrs]

\* No span was started on the thread yet.
NoSpan ==
    [started |-> 0, name |-> <<>>, kind |-> "none",
     method |-> "unset", target |-> "unset", status_code |-> 0,
     status |-> "UNSET", description |-> "none", end_calls |-> 0,
     active |-> FALSE, act_token |-> NoToken]

NewReq ==
    [pc |-> "idle", method |-> "GET", path |-> "/hello", outcome |-> "ok",
     tool |-> 0, handler_ran |-> FALSE, exc |-> None, status |-> 0,
     headers |-> FALSE, fault |-> FALSE, after_uninstrument |-> FALSE]

Init ==
    /\ instrumented = FALSE
    /\ original_expose = 0
    /\ otel_tool = 0
    /\ cherrypy_expose = 0
    /\ cherrypy_tools = 0
    /\ hook = <<>>
    /\ lastExpose = [form |-> "none", alias |-> "none", result |-> NoFunc,
                     installs |-> 0, instrumented |-> FALSE]
    /\ response_propagator \in BOOLEAN
    /\ req = [r \in Reqs |-> NewReq]
    /\ ctx = [r \in Reqs |-> <<>>]
    /\ spans = [r \in Reqs |-> NoSpan]
    /\ active_requests_counter = [m \in Methods |-> 0]
    /\ log = [r \in Reqs |-> <<>>]

\* An instrument() that switches the tool it built before back on.
InstrumentReenablesTool ==
    /\ ~instrumented
    /\ instrumented' = TRUE
    /\ IF hook = <<>>
       THEN /\ \E kwargs \in KwargsSets : hook' = <<NewHook(kwargs)>>
            /\ original_expose' = cherrypy_expose
            /\ otel_tool' = 1
            /\ cherrypy_tools' = 1
            /\ cherrypy_expose' = 1
       ELSE /\ hook' = [hook EXCEPT ![otel_tool].enabled = TRUE]
            /\ UNCHANGED <<original_expose, otel_tool, cherrypy_tools,
                           cherrypy_expose>>
    /\ UNCHANGED <<lastExpose, response_propagator, req>>
    /\ UNCHANGED telemetryVars

\* BaseInstrumentor.instrument(**kwargs) calls _instrument(**kwargs) unless
\* already instrumented.
Instrument ==
    /\ ~instrumented
    /\ Len(hook) < MaxTools
    /\ instrumented' = TRUE
    /\ original_expose' = cherrypy_expose
    /\ \E kwargs \in KwargsSets : hook' = Append(hook, NewHook(kwargs))
    /\ otel_tool' = Len(hook) + 1
    /\ cherrypy_tools' = Len(hook) + 1
    /\ cherrypy_expose' = Len(hook) + 1
    /\ UNCHANGED <<lastExpose, response_propagator, req>>
    /\ UNCHANGED telemetryVars

\* BaseInstrumentor.uninstrument() calls _uninstrument when instrumented.
Uninstrument ==
    /\ instrumented
    /\ instrumented' = FALSE
    /\ hook' = [hook EXCEPT ![otel_tool].enabled = FALSE]
    /\ UNCHANGED <<original_expose, otel_tool, cherrypy_expose, cherrypy_tools,
                   lastExpose, response_propagator, req>>
    /\ UNCHANGED telemetryVars

\* The application defines a page handler with cherrypy.expose and mounts it,
\* before the server takes requests (tests/app.py: the class body, then
\* quickstart), in the direct form or in the parameterized form with an
\* alias.  The handler it yields is the one requests are routed to.
Expose ==
    /\ \A r \in Reqs : req[r].pc = "idle"
    /\ \E form \in {"direct", "parameterized"} :
        LET alias == IF form = "direct" THEN "none" ELSE "A"
            res == ExposeResult(form, alias)
        IN /\ lastExpose' = [form |-> form, alias |-> alias, result |-> res,
                              installs |-> Len(hook),
                              instrumented |-> instrumented]
           /\ UNCHANGED installVars
           /\ UNCHANGED <<hook, response_propagator, req>>
           /\ UNCHANGED telemetryVars

\* ------------------------------------------------ telemetry collaborators
\* ExcludeList.url_disabled for the hook's _otel_excluded_urls.
url_disabled(path) == path \in ExcludedPaths

\* otel_wsgi.get_default_span_name: "HTTP <METHOD>".
get_default_span_name(method) == <<"HTTP", method>>

\* http_status_to_status_code for a server span.
http_status_to_status_code(code) == IF code >= 500 THEN "ERROR" ELSE "UNSET"

is_recording(sp) == sp.end_calls = 0

\* Span.set_status: ignored on an ended span, for UNSET, and once OK.
set_status(sp, code, description) ==
    IF ~is_recording(sp) \/ code = "UNSET" \/ sp.status = "OK" THEN sp
    ELSE [sp EXCEPT !.status = code, !.description = description]

\* context.attach: pushes a frame on the calling thread's stack; the token
\* remembers the thread and the depth to restore.
AttachToken(c, r) == [thread |-> r, depth |-> Len(c)]

\* context.detach: restores the stack the token remembers; a token of another
\* thread cannot be reset there (the failure is logged, nothing changes).
Detach(c, token, r) ==
    IF token.thread = r /\ token.depth <= Len(c)
    THEN SubSeq(c, 1, token.depth)
    ELSE c

\* _start_internal_or_server_span on thread r: with no span current it
\* attaches the extracted inbound context and starts a SERVER span.
NewSpan(method) ==
    [started |-> 1, name |-> get_default_span_name(method), kind |-> "SERVER",
     method |-> "unset", target |-> "unset", status_code |-> 0,
     status |-> "UNSET", description |-> "none", end_calls |-> 0,
     active |-> FALSE, act_token |-> NoToken]

\* otel_wsgi.add_response_attributes; status 0: no status line yet.
add_response_attributes(sp, status) ==
    IF ~is_recording(sp) \/ status = 0 THEN sp
    ELSE set_status([sp EXCEPT !.status_code = status],
                    http_status_to_status_code(status), "none")

\* otel_wsgi._parse_status_code; 0 stands for None.
parse_status_code(status) == status

\* The exit of trace.use_span(span, end_on_exit=True) with exception exc
\* (None: a clean exit): the first exit sets ERROR when an exception is
\* passed, then ends the span; a later exit of the same activation finds
\* the context manager finished and does nothing.  It returns False and
\* raises nothing in both cases.
use_span_exit(sp, exc) ==
    IF ~sp.active THEN sp
    ELSE LET st == IF exc # None
                   THEN set_status(sp, "ERROR", "exception")
                   ELSE sp
         IN  [st EXCEPT !.end_calls = @ + 1, !.active = FALSE]

\* Python's round() of the rational num / den (den > 0): to the nearest
\* integer, a tie to the even one.
round_(num, den) ==
    LET q == num \div den
        rem == num % den
    IN  IF 2 * rem < den THEN q
        ELSE IF 2 * rem > den THEN q + 1
        ELSE IF q % 2 = 0 THEN q
        ELSE q + 1

\* max(a, b) of two integers.
max(a, b) == IF a >= b THEN a ELSE b

\* The elapsed time left unclamped.
duration_unclamped(now, start) == round_((now - start) * 1000, TicksPerSecond)

\* duration = max(round((default_timer() - self.start) * 1000), 0), for the
\* readings now and start in ticks.
duration(now, start) ==
    max(round_((now - start) * 1000, TicksPerSecond), 0)

\* ------------------------------------------------------- the five callbacks
\* Each callback runs on the worker thread of request r, as a bound method of
\* hook instance t, and yields the values it leaves behind.
Cur ==
    [hook |-> hook, ctx |-> ctx, spans |-> spans,
     counter |-> active_requests_counter, log |-> log, req |-> req]

\* The guards with the exclusion test left out.
EligibleWithoutExclusion(t, path) == hook[t].enabled

\* The guards with the enabled flag left out.
EligibleWithoutFlag(t, path) == ~url_disabled(path)

\* The two guards every callback starts with.
Eligible(t, path) == ~url_disabled(path) /\ hook[t].enabled

\* A start callback that leaves the captured exception as it finds it.
keep_exception(h) == h

\* self.exception = None, the last statement of the start callback.
reset_exception(h) == [h EXCEPT !.exception = None]

\* now: the reading default_timer() returns to this call.  The start field
\* keeps the reading (at) and which request's callback took it (by).
on_start_resource_hook(t, r, environ, now) ==
    IF ~Eligible(t, environ.path) THEN Cur
    ELSE
    LET s == r
        token == AttachToken(ctx[r], r)
        c1 == Append(ctx[r], 0)
        attrs == [method |-> environ.method, status_code |-> 0]
        sp0 == NewSpan(environ.method)
        sp1 == IF is_recording(sp0)
               THEN [sp0 EXCEPT !.method = environ.method,
                                !.target = environ.path]
               ELSE sp0
        sp2 == [sp1 EXCEPT !.active = TRUE, !.act_token = AttachToken(c1, r)]
    IN  [Cur EXCEPT
            !.hook[t] = reset_exception(
                            [@ EXCEPT !.span = s, !.token = token,
                                      !.active_requests_count_attrs = attrs,
                                      !.duration_attrs = attrs,
                                      !.activation = s,
                                      !.start = [at |-> now, by |-> r]]),
            !.ctx[r] = Append(c1, s),
            !.spans[s] = sp2,
            !.counter[attrs.method] = @ + 1,
            !.log[r] = @ \o <<Ev("start_span", s, 0, environ.method, 0, None)>>
                         \o (IF hook[t].request_hook # "None"
                             THEN <<Ev("request_hook", s, 0, environ.method, 0,
                                       None)>>
                             ELSE <<>>)
                         \o <<Ev("add", 0, 1, attrs.method, 0, None)>>]

\* A before-finalize callback that injects without asking whether a
\* propagator is configured.
before_finalize_injects_always(t, r) ==
    IF ~Eligible(t, req[r].path) THEN Cur
    ELSE [Cur EXCEPT !.req[r].headers = TRUE]

before_finalize_hook(t, r) ==
    IF ~Eligible(t, req[r].path) THEN Cur
    ELSE IF response_propagator
    THEN [Cur EXCEPT !.req[r].headers = TRUE]
    ELSE Cur

on_end_resource_hook(t, r) ==
    IF ~Eligible(t, req[r].path) THEN Cur
    ELSE IF hook[t].span = Unset THEN [Cur EXCEPT !.req[r].fault = TRUE]
    ELSE
    LET s == hook[t].span
        status_code == parse_status_code(req[r].status)
    IN  [Cur EXCEPT
            !.spans[s] = add_response_attributes(@, req[r].status),
            !.hook[t].duration_attrs.status_code =
                IF status_code # 0 THEN status_code ELSE @]

\* An error callback that also clears the propagating exception.
after_error_response_swallows(t, r) ==
    IF ~Eligible(t, req[r].path) THEN Cur
    ELSE [Cur EXCEPT !.hook[t].exception = req[r].exc, !.req[r].exc = None]

after_error_response_hook(t, r) ==
    IF ~Eligible(t, req[r].path) THEN Cur
    ELSE [Cur EXCEPT !.hook[t].exception = req[r].exc]

\* now: the reading default_timer() returns to this call.  A "record" event
\* carries the recorded value, the attribute set, and in its span field the
\* request whose start reading the value was computed from.
on_end_request_hook(t, r, now) ==
    IF ~Eligible(t, req[r].path) THEN Cur
    ELSE IF hook[t].exception = Unset THEN [Cur EXCEPT !.req[r].fault = TRUE]
    ELSE
    LET h == hook[t]
        a == h.activation
        sp == spans[a]
        c1 == IF sp.active THEN Detach(ctx[r], sp.act_token, r) ELSE ctx[r]
        c2 == IF h.token # NoToken THEN Detach(c1, h.token, r) ELSE c1
        ended == IF sp.active
                 THEN <<Ev("end", a, 0, "unset", 0, None)>>
                 ELSE <<>>
    IN  [Cur EXCEPT
            !.spans[a] = use_span_exit(sp, h.exception),
            !.ctx[r] = c2,
            !.counter[h.active_requests_count_attrs.method] = @ - 1,
            !.log[r] = @ \o <<Ev("exit", a, 0, "unset", 0, h.exception)>>
                         \o ended
                         \o <<Ev("record", h.start.by,
                                 duration(now, h.start.at),
                                 h.duration_attrs.method,
                                 h.duration_attrs.status_code, None),
                              Ev("add", 0, -1,
                                 h.active_requests_count_attrs.method, 0,
                                 None)>>]

\* ------------------------------------------------------ the host framework
\* The page handler mounted on the application.
handler == lastExpose.result

\* The status line the host sends for a handler outcome.
HostStatus(outcome) ==
    IF outcome = "ok" THEN 200
    ELSE IF outcome = "not_found" THEN 404
    ELSE 500

\* What a callback left behind becomes the state; the host then moves on.
Put(out) ==
    /\ hook' = out.hook
    /\ ctx' = out.ctx
    /\ spans' = out.spans
    /\ active_requests_counter' = out.counter
    /\ log' = out.log

\* A request arrives.  On a path of the mounted handler: if the tool is
\* switched on in the handler's configuration, the tool found in the toolbox
\* attaches its callbacks (_setup) and the start callback runs; then the
\* handler runs.  Without the tool the host serves the request with no
\* callback at all.  On a path with no handler there is no handler
\* configuration, the only place where _instrument switches the tool on: no
\* callback is attached and the host answers 404.
\* Requests are numbered in the order in which they arrive.
StartRequest(r) ==
    /\ req[r].pc = "idle"
    /\ \A q \in Reqs : q < r => req[q].pc # "idle"
    /\ handler.exposed
    /\ \E method \in Methods, path \in Paths, result \in Outcomes,
          now \in Ticks :
        LET found == path \in HandlerPaths
            outcome == IF found THEN result ELSE "not_found"
            t == IF found /\ handler.tool_on THEN cherrypy_tools ELSE 0
            environ == [method |-> method, path |-> path]
            out == IF t = 0 THEN Cur
                   ELSE on_start_resource_hook(t, r, environ, now)
        IN  /\ Put(out)
            /\ req' = [out.req EXCEPT ![r] =
                   [@ EXCEPT !.pc = IF t = 0 THEN "done" ELSE "before_finalize",
                             !.method = method, !.path = path,
                             !.outcome = outcome, !.tool = t,
                             !.handler_ran = found,
                             !.after_uninstrument = (t # 0 /\ ~instrumented),
                             !.exc = IF outcome = "raise" THEN r ELSE None,
                             !.status = IF t = 0 THEN HostStatus(outcome)
                                        ELSE 0]]
    /\ UNCHANGED installVars
    /\ UNCHANGED <<lastExpose, response_propagator>>

\* before_finalize callbacks, then the host finalizes the response of a
\* handler that returned.
BeforeFinalize(r) ==
    /\ req[r].pc = "before_finalize"
    /\ LET out == before_finalize_hook(req[r].tool, r)
       IN  /\ Put(out)
           /\ req' = [out.req EXCEPT ![r].pc = "on_end_resource",
                                     ![r].status =
                                         IF out.req[r].exc = None
                                         THEN HostStatus("ok") ELSE @]
    /\ UNCHANGED installVars
    /\ UNCHANGED <<lastExpose, response_propagator>>

\* on_end_resource callbacks (response ready).
OnEndResource(r) ==
    /\ req[r].pc = "on_end_resource"
    /\ LET out == on_end_resource_hook(req[r].tool, r)
       IN  /\ Put(out)
           /\ req' = [out.req EXCEPT ![r].pc =
                         IF out.req[r].exc # None THEN "after_error_response"
                         ELSE "on_end_request"]
    /\ UNCHANGED installVars
    /\ UNCHANGED <<lastExpose, response_propagator>>

\* The host builds the error response for the propagating exception, then
\* runs the after_error_response callbacks.
AfterErrorResponse(r) ==
    /\ req[r].pc = "after_error_response"
    /\ LET out == after_error_response_hook(req[r].tool, r)
       IN  /\ Put(out)
           /\ req' = [out.req EXCEPT ![r].pc = "on_end_request",
                                     ![r].status =
                                         IF out.req[r].exc # None
                                         THEN HostStatus("raise") ELSE @]
    /\ UNCHANGED installVars
    /\ UNCHANGED <<lastExpose, response_propagator>>

\* on_end_request callbacks; the request is over.
OnEndRequest(r) ==
    /\ req[r].pc = "on_end_request"
    /\ \E now \in Ticks :
        LET out == on_end_request_hook(req[r].tool, r, now)
        IN  /\ Put(out)
            /\ req' = [out.req EXCEPT ![r].pc = "done"]
    /\ UNCHANGED installVars
    /\ UNCHANGED <<lastExpose, response_propagator>>

Next ==
    \/ Instrument
    \/ Uninstrument
    \/ Expose
    \/ \E r \in Reqs : StartRequest(r)
    \/ \E r \in Reqs : BeforeFinalize(r)
    \/ \E r \in Reqs : OnEndResource(r)
    \/ \E r \in Reqs : AfterErrorResponse(r)
    \/ \E r \in Reqs : OnEndRequest(r)

Spec == Init /\ [][Next]_vars

\* A host that serves one request at a time: a request arrives only when no
\* other request is between its start and its end.
StartRequestAlone(r) ==
    /\ \A q \in Reqs : req[q].pc \in {"idle", "done"}
    /\ StartRequest(r)

NextSeq ==
    \/ Instrument
    \/ Uninstrument
    \/ Expose
    \/ \E r \in Reqs : StartRequestAlone(r)
    \/ \E r \in Reqs : BeforeFinalize(r)
    \/ \E r \in Reqs : OnEndResource(r)
    \/ \E r \in Reqs : AfterErrorResponse(r)
    \/ \E r \in Reqs : OnEndRequest(r)

SpecSeq == Init /\ [][NextSeq]_vars

\* ------------------------------------------------------------------ claims
Done(r) == req[r].pc = "done"
InFlight(r) == req[r].pc \notin {"idle", "done"}
Quiescent == \A r \in Reqs : ~InFlight(r)
Hooked(r) == req[r].tool # 0
Excluded(r) == url_disabled(req[r].path)

\* r was served with the callbacks attached and its hook is still enabled
\* (the flag never returns to true, so it was enabled for all of r).
Observed(r) ==
    /\ Done(r)
    /\ Hooked(r)
    /\ hook[req[r].tool].enabled
    /\ ~Excluded(r)

IsStart(e) == e.op = "start_span"
IsInc(e) == e.op = "add" /\ e.val = 1
IsDec(e) == e.op = "add" /\ e.val = -1

\* C1: once no request is in flight, every non-excluded request served while
\* the hook was enabled has started exactly one span, named "HTTP <METHOD>"
\* after its method, and that span was ended exactly once.
C1_OneSpanStartedAndEndedOnce ==
    Quiescent =>
        \A r \in Reqs :
            Observed(r) =>
                /\ Count(log[r], IsStart) = 1
                /\ spans[r].name = <<"HTTP", req[r].method>>
                /\ spans[r].end_calls = 1

\* C2: a finished request whose start callback added +1 has added exactly one
\* -1 with the attribute set of its own +1, and once no request is in flight
\* the counter is zero for every attribute set.
C2_CounterBalanced ==
    /\ \A r \in Reqs :
           (Done(r) /\ Count(log[r], IsInc) = 1) =>
               LET OwnDec(e) == IsDec(e) /\ e.method = req[r].method
               IN  Count(log[r], IsDec) = 1 /\ Count(log[r], OwnDec) = 1
    /\ Quiescent => \A m \in Methods : active_requests_counter[m] = 0

\* C3: whatever the interleaving, the end callback of a request exits the
\* activation of the span its own start callback started, passes its own
\* captured exception, records its own start reading and uses its own
\* duration and active-request attribute sets.
C3_NoSharedRequestState ==
    \A r \in Reqs :
        \A i \in DOMAIN log[r] :
            LET e == log[r][i] IN
            /\ e.op \in {"exit", "end"} => e.span = r
            /\ e.op = "exit" =>
                   e.exc = (IF req[r].outcome = "raise" THEN r ELSE None)
            /\ e.op = "record" => e.span = r /\ e.method = req[r].method
            /\ e.op = "add" => e.method = req[r].method

\* C4: once the end callback of a request has fired, the span started for it
\* has been ended and its +1 has been matched by a -1, also when uninstrument
\* ran between its start and its end.  Stated for a request served alone, so
\* that no other request's callbacks are involved.
C4_NoLeakAfterEnd ==
    \A r \in Reqs :
        (/\ Done(r)
         /\ \A q \in Reqs \ {r} : req[q].pc = "idle"
         /\ Count(log[r], IsStart) = 1) =>
            /\ spans[r].end_calls = 1
            /\ Count(log[r], IsDec) = Count(log[r], IsInc)

\* C5: the finished span of a non-excluded request is UNSET with no
\* description when its handler returned, and ERROR when its handler raised.
C5_SpanStatusFollowsOutcome ==
    \A r \in Reqs :
        (Observed(r) /\ spans[r].end_calls = 1) =>
            /\ req[r].outcome = "ok" =>
                   spans[r].status = "UNSET" /\ spans[r].description = "none"
            /\ req[r].outcome = "raise" => spans[r].status = "ERROR"

\* C6: every callback of a request to an excluded path is a no-op: it starts
\* no span, touches neither the counter nor the histogram, injects no
\* response header and writes no field of the hook, whatever the outcome.
C6_ExcludedStep ==
    \A r \in Reqs :
        (req'[r] # req[r] /\ url_disabled(req'[r].path)) =>
            /\ hook' = hook
            /\ spans' = spans
            /\ active_requests_counter' = active_requests_counter
            /\ ctx' = ctx
            /\ log' = log /\ log[r] = <<>>
            /\ ~req'[r].headers
            /\ ~req'[r].fault

\* C6: every step of every behaviour leaves an excluded request without
\* effect (C6_ExcludedStep).
C6_ExcludedRequestsAreNoOps == [][C6_ExcludedStep]_vars

C6_Witness ==
    \E r \in Reqs :
        /\ Done(r) /\ Hooked(r) /\ Excluded(r)
        /\ hook[req[r].tool].enabled
        /\ req[r].outcome = "raise"
        /\ response_propagator

\* C7: uninstrument only sets the hook's flag to false: the tool stays in the
\* toolbox, cherrypy.expose stays replaced, the handler stays exposed and
\* attached callbacks stay attached.  Every callback of a request that
\* started after it has no effect, and the handler of that request runs.
C7_Step ==
    /\ (instrumented /\ ~instrumented') =>
           /\ hook' = [hook EXCEPT ![otel_tool].enabled = FALSE]
           /\ UNCHANGED <<original_expose, otel_tool, cherrypy_expose,
                          cherrypy_tools, lastExpose, req>>
           /\ UNCHANGED telemetryVars
    /\ \A r \in Reqs :
           (req'[r] # req[r] /\ req'[r].after_uninstrument) =>
               /\ hook' = hook
               /\ UNCHANGED telemetryVars
               /\ log[r] = <<>>
               /\ spans[r] = NoSpan
               /\ ~req'[r].headers
               /\ ~req'[r].fault
               /\ req'[r].handler_ran
               /\ handler.exposed

\* C7: every step of every behaviour is a flag-only uninstrument or leaves a
\* request started after uninstrument without effect (C7_Step).
C7_NoTelemetryAfterUninstrument == [][C7_Step]_vars

C7_Witness ==
    \E r \in Reqs :
        /\ Done(r) /\ Hooked(r) /\ ~Excluded(r)
        /\ req[r].after_uninstrument
        /\ req[r].handler_ran
        /\ cherrypy_tools = req[r].tool

\* C8: after instrument, uninstrument, instrument, a use of cherrypy.expose
\* on a handler returns that handler, exposed and with the tool switched on.
C8_ExposeAfterReinstall ==
    (/\ lastExpose.form = "direct"
     /\ lastExpose.installs = 2
     /\ lastExpose.instrumented) =>
        /\ lastExpose.result.kind = "handler"
        /\ lastExpose.result.exposed
        /\ lastExpose.result.tool_on

\* C9: with the instrumentation installed once, expose(handler) returns the
\* handler exposed and with the tool switched on, and expose(alias=A)(handler)
\* returns the handler exposed under alias A with the tool switched on.
C9_BothCallShapes ==
    (/\ lastExpose.form # "none"
     /\ lastExpose.installs = 1
     /\ lastExpose.instrumented) =>
        /\ lastExpose.result.kind = "handler"
        /\ lastExpose.result.exposed
        /\ lastExpose.result.tool_on
        /\ lastExpose.result.alias = lastExpose.alias

\* C10: the error callback stores the propagating exception in the hook and
\* changes nothing else; no callback raises or clears the exception, and the
\* response of a finished request has the status the host gives the
\* handler's outcome, as it has for a request served without callbacks.
C10_Step ==
    \A r \in Reqs :
        /\ (req[r].pc = "after_error_response" /\ req'[r].pc # req[r].pc) =>
               LET t == req[r].tool IN
               /\ hook' = IF Eligible(t, req[r].path)
                          THEN [hook EXCEPT ![t].exception = req[r].exc]
                          ELSE hook
               /\ req[r].exc = r
               /\ UNCHANGED telemetryVars
        /\ (req'[r].pc = "done" /\ req[r].pc # "done") =>
               /\ req'[r].status = HostStatus(req'[r].outcome)
               /\ req'[r].exc =
                      (IF req'[r].outcome = "raise" THEN r ELSE None)
               /\ ~req'[r].fault
        /\ req[r].pc # "idle" => req'[r].exc = req[r].exc

\* C10: every step of every behaviour only observes the handler's exception
\* (C10_Step).
C10_ExceptionOnlyObserved == [][C10_Step]_vars

C10_Witness ==
    \E r \in Reqs :
        /\ Observed(r)
        /\ req[r].outcome = "raise"
        /\ req[r].status = 500
        /\ \E i \in DOMAIN log[r] : log[r][i].op = "exit" /\ log[r][i].exc = r

IsRecord(e) == e.op = "record"

\* The step is the end callback of request r passing its two guards.
EndsEligible(r) ==
    /\ req[r].pc = "on_end_request"
    /\ req'[r].pc = "done"
    /\ Eligible(req[r].tool, req[r].path)

\* C11: the end callback of an eligible request records exactly one duration
\* sample, the only one of that request, and its value is not negative; no
\* other step records a sample.
C11_Step ==
    \A r \in Reqs :
        IF EndsEligible(r)
        THEN /\ Count(log[r], IsRecord) = 0
             /\ Count(log'[r], IsRecord) = 1
             /\ \A i \in DOMAIN log'[r] :
                    IsRecord(log'[r][i]) => log'[r][i].val >= 0
        ELSE Count(log'[r], IsRecord) = Count(log[r], IsRecord)

\* C11: every step of every behaviour records one non-negative sample at the
\* end of an eligible request and none elsewhere (C11_Step).
C11_OneNonNegativeSample == [][C11_Step]_vars

\* A sample of value 0 was recorded from the largest start reading, which no
\* end reading exceeds.
C11_Witness ==
    \E r \in Reqs, t \in DOMAIN hook :
        /\ Observed(r) /\ req[r].tool = t
        /\ hook[t].start.by = r
        /\ hook[t].start.at = MaxTick
        /\ \E i \in DOMAIN log[r] :
               IsRecord(log[r][i]) /\ log[r][i].val = 0

\* C12: the histogram and the counter of a hook come from the meter provider
\* passed to instrument() and from the global one only when none was passed,
\* and likewise its tracer from the tracer provider.
C12_ProvidersHonoured ==
    \A t \in DOMAIN hook :
        /\ hook[t].otel_meter =
               (IF "meter_provider" \in hook[t].passed THEN "user" ELSE "global")
        /\ hook[t].otel_tracer =
               (IF "tracer_provider" \in hook[t].passed THEN "user"
                ELSE "global")

\* The calls of the user callback `op` among the events of request r that
\* carry the live span of r: after its start and before its end.
HookCalls(r, op) ==
    {i \in DOMAIN log[r] :
        /\ log[r][i].op = op
        /\ log[r][i].span = r
        /\ \E j \in 1..(i - 1) : IsStart(log[r][j]) /\ log[r][j].span = r
        /\ \A j \in 1..i : ~(log[r][j].op = "end" /\ log[r][j].span = r)}

\* C13: for a finished non-excluded request served with the hook enabled, a
\* configured request_hook was called once with the request's live span and
\* a configured response_hook was called once with it; a callback that is not
\* configured is never called, and no callback of the hook failed.
C13_UserCallbacksInvoked ==
    \A r \in Reqs :
        Observed(r) =>
            LET h == hook[req[r].tool]
                Calls(op) == Count(log[r], LAMBDA e : e.op = op)
            IN  /\ ~req[r].fault
                /\ IF h.request_hook # "None"
                   THEN /\ Calls("request_hook") = 1
                        /\ Cardinality(HookCalls(r, "request_hook")) = 1
                   ELSE Calls("request_hook") = 0
                /\ IF h.response_hook # "None"
                   THEN /\ Calls("response_hook") = 1
                        /\ Cardinality(HookCalls(r, "response_hook")) = 1
                   ELSE Calls("response_hook") = 0

\* The instrumentation was installed once, before the handler was exposed and
\* so before any request, and has not been uninstalled.
InstalledThroughout ==
    /\ instrumented
    /\ Len(hook) = 1
    /\ lastExpose.instrumented

\* C14: with the instrumentation installed, a finished request to a path with
\* no handler was answered 404 and has exactly one span, ended once, with
\* http.status_code 404 and status UNSET.
C14_NotFoundHasOneSpan ==
    \A r \in Reqs :
        (InstalledThroughout /\ Done(r) /\ req[r].path \notin HandlerPaths) =>
            /\ req[r].status = 404
            /\ Count(log[r], IsStart) = 1
            /\ spans[r].end_calls = 1
            /\ spans[r].status_code = 404
            /\ spans[r].status = "UNSET"

\* r is the only request the host has taken so far.
ServedAlone(r) == \A q \in Reqs \ {r} : req[q].pc = "idle"

\* C15: the duration sample of a finished request carries the status code of
\* the response sent for that request, when the handler returned and when it
\* raised and the host built the error response after the response-ready
\* callback.  Stated for a request served alone with the hook enabled.
C15_SampleCarriesSentStatus ==
    \A r \in Reqs :
        (Observed(r) /\ ServedAlone(r)) =>
            \A i \in DOMAIN log[r] :
                IsRecord(log[r][i]) => log[r][i].status_code = req[r].status

\* C16: once the end callback of a request whose start callback started a span
\* has run, the span has been deactivated and ended exactly once and the
\* ambient context of the request's thread is what it was before the start
\* callback: empty.
C16_ContextBalanced ==
    \A r \in Reqs :
        (Done(r) /\ Count(log[r], IsStart) = 1) =>
            /\ ctx[r] = <<>>
            /\ ~spans[r].active
            /\ spans[r].end_calls = 1

\* C17: the before-finalize callback of a request leaves the propagation
\* headers in the response exactly when the request is eligible and a global
\* response propagator is configured; it fails in no case and touches nothing
\* else, and no other callback touches the response headers.
C17_Step ==
    \A r \in Reqs :
        IF req[r].pc = "before_finalize" /\ req'[r].pc # req[r].pc
        THEN /\ req'[r].headers =
                    (Eligible(req[r].tool, req[r].path) /\ response_propagator)
             /\ ~req'[r].fault
             /\ hook' = hook
             /\ UNCHANGED telemetryVars
        ELSE req'[r].headers = req[r].headers

\* C17: every step of every behaviour injects headers only in the
\* before-finalize callback of an eligible request with a propagator
\* configured (C17_Step).
C17_HeadersIffEligibleAndPropagator == [][C17_Step]_vars

C17_Witness ==
    \E r \in Reqs :
        /\ Observed(r)
        /\ ~response_propagator
        /\ ~req[r].headers
        /\ ~req[r].fault

\* C18: when requests do not overlap, a request whose handler did not raise
\* never has its span marked ERROR and its end callback never exits the
\* activation with an exception, whatever earlier requests on the same hook
\* captured.
C18_NoStaleException ==
    \A r \in Reqs :
        (Done(r) /\ req[r].outcome # "raise") =>
            /\ spans[r].status # "ERROR"
            /\ \A i \in DOMAIN log[r] :
                   log[r][i].op = "exit" => log[r][i].exc = None

C18_Witness ==
    \E r1, r2 \in Reqs :
        /\ r1 < r2
        /\ Observed(r1) /\ Observed(r2)
        /\ req[r1].tool = req[r2].tool
        /\ req[r1].outcome = "raise"
        /\ spans[r1].status = "ERROR"
        /\ \E i \in DOMAIN log[r1] :
               log[r1][i].op = "exit" /\ log[r1][i].exc = r1
        /\ req[r2].outcome = "ok"
        /\ spans[r2].end_calls = 1
        /\ spans[r2].status = "UNSET"

\* C19: when the response-ready or the end callback of a request passes its
\* two guards, the start callback of that request passed them too: it started
\* the request's span and the hook's span, token, activation, start,
\* exception and both attribute sets are assigned, so the callback reads no
\* unset attribute.  The enabled flag of a hook never returns to true, and
\* the path and the tool of a request do not change while it is served.
C19_Step ==
    /\ \A t \in DOMAIN hook : ~hook[t].enabled => ~hook'[t].enabled
    /\ \A r \in Reqs :
        /\ req[r].pc # "idle" =>
               /\ req'[r].path = req[r].path
               /\ req'[r].tool = req[r].tool
        /\ (/\ req[r].pc \in {"on_end_resource", "on_end_request"}
            /\ req'[r].pc # req[r].pc
            /\ Eligible(req[r].tool, req[r].path)) =>
               LET h == hook[req[r].tool] IN
               /\ Count(log[r], IsStart) = 1
               /\ h.span # Unset
               /\ h.token # UnsetToken
               /\ h.activation # Unset
               /\ h.start # UnsetStart
               /\ h.exception # Unset
               /\ h.duration_attrs # NoAttrs
               /\ h.active_requests_count_attrs # NoAttrs
               /\ ~req'[r].fault

\* C19: every step of every behaviour keeps eligibility consistent within a
\* request (C19_Step).
C19_EligibilityConsistent == [][C19_Step]_vars

C19_Witness ==
    \E r \in Reqs :
        /\ Observed(r)
        /\ req[r].tool = 2
        /\ ~hook[1].enabled
        /\ Count(log[r], IsStart) = 1
        /\ Count(log[r], IsRecord) = 1

====
